---- MODULE Spec2Model ----
(***************************************************************************)
(* Model of the swimming-api backend (app/routes.py, app/utils_swim.py):   *)
(* the time parser, the personal-best reducers of /pb, /summary and /rank, *)
(* the opponent pool and ranking of /rank, and the request-scoped database *)
(* session of get_db.                                                      *)
(*                                                                         *)
(* Conventions.                                                            *)
(*  - A Python str is a sequence of one-character strings.  Chinese        *)
(*    characters are written in pinyin ("dong" "ji" "duan" "shui" "dao"    *)
(*    for the winter short-course marker); each token is ONE character.    *)
(*  - A Python value that may be None is a record with a field k:          *)
(*    [k |-> "None"], [k |-> "str", s |-> chars], [k |-> "int", v |-> n],   *)
(*    [k |-> "num", m |-> mantissa, e |-> fraction digits] (the float      *)
(*    m / 10^e, kept exact and normalised), [k |-> "inf", neg |-> b],      *)
(*    [k |-> "nan"].  Binary rounding of doubles is not modelled.          *)
(***************************************************************************)
EXTENDS Integers, Sequences, FiniteSets, TLC

VARIABLES
    table,   \* the rows of swimming_scores, in physical order
    phase,   \* position of the request: "idle" (none in flight), "open", "responded"
    req,     \* the request in flight: endpoint and query parameters
    sess,    \* the request's Session: "none", "open", "closed"
    closes,  \* number of db.close() calls made for the request in flight
    resp,    \* what the handler handed back to the framework
    arg,     \* argument of the helper call under test
    ret,     \* value returned by the helper call under test
    client   \* a client that pages through a listing: cursor, items so far

vars == <<table, phase, req, sess, closes, resp, arg, ret, client>>

-----------------------------------------------------------------------------
(* Python values *)

None == [k |-> "None"]
Unset == [fn |-> "none", val |-> [k |-> "None"]]
Str(s) == [k |-> "str", s |-> s]
PInt(n) == [k |-> "int", v |-> n]
NaN == [k |-> "nan"]
Inf(neg) == [k |-> "inf", neg |-> neg]
Raise == [k |-> "raise"]

IsNone(x) == x.k = "None"

RECURSIVE Pow10(_)
Pow10(n) == IF n <= 0 THEN 1 ELSE 10 * Pow10(n - 1)

RECURSIVE Num(_, _)
\* the float m / 10^e, trailing zeros of the fraction dropped
Num(m, e) == IF e > 0 /\ m % 10 = 0 THEN Num(m \div 10, e - 1)
             ELSE [k |-> "num", m |-> m, e |-> e]

Max(a, b) == IF a >= b THEN a ELSE b
Min(a, b) == IF a <= b THEN a ELSE b

\* a + b on floats
FAdd(a, b) ==
    IF a.k = "nan" \/ b.k = "nan" THEN NaN
    ELSE IF a.k = "inf" /\ b.k = "inf" THEN (IF a.neg = b.neg THEN a ELSE NaN)
    ELSE IF a.k = "inf" THEN a
    ELSE IF b.k = "inf" THEN b
    ELSE LET e == Max(a.e, b.e)
         IN  Num(a.m * Pow10(e - a.e) + b.m * Pow10(e - b.e), e)

\* a < b on floats (every comparison with nan is False)
FLt(a, b) ==
    IF a.k = "nan" \/ b.k = "nan" THEN FALSE
    ELSE IF a.k = "inf" THEN a.neg /\ ~(b.k = "inf" /\ b.neg)
    ELSE IF b.k = "inf" THEN ~b.neg
    ELSE a.m * Pow10(b.e - a.e) < b.m * Pow10(a.e - b.e)

\* a <= 0 on floats
FLeZero(a) ==
    IF a.k = "nan" THEN FALSE
    ELSE IF a.k = "inf" THEN a.neg
    ELSE a.m <= 0

\* a > 0 on floats
FGtZero(a) ==
    IF a.k = "nan" THEN FALSE
    ELSE IF a.k = "inf" THEN ~a.neg
    ELSE a.m > 0

\* truthiness of a float: `if x`
FTruthy(a) == IF a.k = "num" THEN a.m # 0 ELSE TRUE

-----------------------------------------------------------------------------
(* Python str operations *)

Digits == {"0", "1", "2", "3", "4", "5", "6", "7", "8", "9"}

DigitVal(c) == CASE c = "0" -> 0 [] c = "1" -> 1 [] c = "2" -> 2 [] c = "3" -> 3
                 [] c = "4" -> 4 [] c = "5" -> 5 [] c = "6" -> 6 [] c = "7" -> 7
                 [] c = "8" -> 8 [] c = "9" -> 9

IsDigits(s) == Len(s) > 0 /\ \A i \in 1..Len(s) : s[i] \in Digits

RECURSIVE DigitsVal(_)
DigitsVal(s) == IF Len(s) = 0 THEN 0
                ELSE 10 * DigitsVal(SubSeq(s, 1, Len(s) - 1)) + DigitVal(s[Len(s)])

\* `sub in s`
Contains(s, sub) ==
    \E i \in 0..(Len(s) - Len(sub)) : SubSeq(s, i + 1, i + Len(sub)) = sub

HasChar(s, c) == \E i \in 1..Len(s) : s[i] = c

RECURSIVE Strip(_)
\* s.strip(): the space is the only whitespace of the model's alphabet
Strip(s) == IF Len(s) = 0 THEN s
            ELSE IF s[1] = " " THEN Strip(Tail(s))
            ELSE IF s[Len(s)] = " " THEN Strip(SubSeq(s, 1, Len(s) - 1))
            ELSE s

RECURSIVE SplitOn(_, _)
\* s.split(c): the list of the parts between the occurrences of c
SplitOn(s, c) ==
    IF ~HasChar(s, c) THEN <<s>>
    ELSE LET i == CHOOSE j \in 1..Len(s) :
                      s[j] = c /\ \A h \in 1..(j - 1) : s[h] # c
         IN  <<SubSeq(s, 1, i - 1)>> \o SplitOn(SubSeq(s, i + 1, Len(s)), c)

\* s.split(c, 1): at most one split, at the first occurrence
SplitOnce(s, c) ==
    IF ~HasChar(s, c) THEN <<s>>
    ELSE LET i == CHOOSE j \in 1..Len(s) :
                      s[j] = c /\ \A h \in 1..(j - 1) : s[h] # c
         IN  <<SubSeq(s, 1, i - 1), SubSeq(s, i + 1, Len(s))>>

IsNeg(t) == Len(t) > 0 /\ t[1] = "-"
Unsigned(t) == IF Len(t) > 0 /\ t[1] = "-" THEN Tail(t) ELSE t
Signed(neg, n) == IF neg THEN 0 - n ELSE n

IntOfBody(neg, body) ==
    IF IsDigits(body) THEN PInt(Signed(neg, DigitsVal(body))) ELSE Raise

\* int(s) of Python: optional whitespace, optional sign, decimal digits
PyInt(s) == IntOfBody(IsNeg(Strip(s)), Unsigned(Strip(s)))

\* a decimal literal: at most one point, at least one digit, nothing else
FloatOfParts(neg, parts) ==
    IF Len(parts) = 1
    THEN (IF IsDigits(parts[1]) THEN Num(Signed(neg, DigitsVal(parts[1])), 0) ELSE Raise)
    ELSE IF /\ Len(parts) = 2
            /\ IsDigits(parts[1] \o parts[2])
         THEN Num(Signed(neg, DigitsVal(parts[1] \o parts[2])), Len(parts[2]))
         ELSE Raise

FloatOfBody(neg, body) ==
    IF body = <<"i", "n", "f">> THEN Inf(neg)
    ELSE IF body = <<"n", "a", "n">> THEN NaN
    ELSE FloatOfParts(neg, SplitOn(body, "."))

\* float(s) of Python: optional whitespace, optional sign, then inf, nan or a
\* decimal literal
PyFloat(s) == FloatOfBody(IsNeg(Strip(s)), Unsigned(Strip(s)))

IntTimes_Added(i, n) == Num(i.v + n, 0)

\* int(m) * 60, an int, as the left operand of the float addition
IntTimes(i, n) == Num(i.v * n, 0)

-----------------------------------------------------------------------------
(* app/routes.py: parse_seconds; app/utils_swim.py: convert_to_seconds *)

MinuteFactor == 60

\* line 30: return int(m) * 60 + float(sec); either conversion may raise
MinutesPlusSeconds(m, sec) ==
    IF m.k = "raise" \/ sec.k = "raise" THEN None
    ELSE FAdd(IntTimes(m, MinuteFactor), sec)

\* line 29: m, sec = s.split(":") raises unless there are exactly two parts
UnpackTwo(parts) ==
    IF Len(parts) # 2 THEN None
    ELSE MinutesPlusSeconds(PyInt(parts[1]), PyFloat(parts[2]))

FloatOrNone(f) == IF f.k = "raise" THEN None ELSE f

ParseStripped(t) ==
    IF HasChar(t, ":") THEN UnpackTwo(SplitOn(t, ":"))
    ELSE FloatOrNone(PyFloat(t))

\* parse_seconds(s), routes.py lines 22-33
parse_seconds(x) ==
    IF IsNone(x) \/ x.s = <<>> THEN None ELSE ParseStripped(Strip(x.s))

FloatOrZero(f) == IF f.k = "raise" THEN Num(0, 0) ELSE f

\* float(mm) * 60.0 + float(ss)
MinutesPlusSecondsF(mm, ss) ==
    IF mm.k = "raise" \/ ss.k = "raise" THEN Num(0, 0)
    ELSE IF mm.k = "num" THEN FAdd(Num(mm.m * MinuteFactor, mm.e), ss)
    ELSE FAdd(mm, ss)

ConvertParts(parts) == MinutesPlusSecondsF(PyFloat(parts[1]), PyFloat(parts[2]))

ConvertStripped(t) ==
    IF HasChar(t, ":") THEN ConvertParts(SplitOnce(t, ":"))
    ELSE FloatOrZero(PyFloat(t))

\* convert_to_seconds(result), utils_swim.py lines 15-26
convert_to_seconds(x) ==
    IF IsNone(x) \/ x.s = <<>> THEN Num(0, 0) ELSE ConvertStripped(Strip(x.s))

-----------------------------------------------------------------------------
(* app/routes.py: predicates on meet names and divisions *)

WinterShort == <<"dong", "ji", "duan", "shui", "dao">>
ShortCourse == <<"duan", "shui", "dao">>

\* is_winter_short_course(meet)
is_winter_short_course(meet) ==
    IF meet = <<>> THEN FALSE
    ELSE \/ Contains(meet, WinterShort)
         \/ (Contains(meet, ShortCourse) /\ HasChar(meet, "dong"))

\* re.fullmatch(r"\d+", s)
FullMatchDigits(s) == IsDigits(s)

\* same_numeric_group(g); g is never None here, the queries COALESCE it to ''
same_numeric_group(g) == FullMatchDigits(Strip(g))

-----------------------------------------------------------------------------
(* The table swimming_scores and the queries the handlers run on it.       *)
(* A row is [name, year, meet, item, result, grp]; grp = <<>> stands for   *)
(* both NULL and '' (every query reads it through COALESCE(grp, '')).      *)

Row(n, y, m, i, r, g) ==
    [name |-> n, year |-> y, meet |-> m, item |-> i, result |-> r, grp |-> g]

\* "item" ILIKE '%' || pat || '%' (the alphabet has no letter case and no wildcard)
ILike(item, pat) == Contains(item, pat)

RECURSIVE InsertByYear(_, _)
InsertByYear(sorted, r) ==
    IF sorted = <<>> THEN <<r>>
    ELSE IF r.year < Head(sorted).year THEN <<r>> \o sorted
    ELSE <<Head(sorted)>> \o InsertByYear(Tail(sorted), r)

RECURSIVE OrderByYear(_)
\* ORDER BY "year" ASC as one execution returns it: rows of one year in
\* the table's order (YearOrders below has every order the query allows)
OrderByYear(rows) ==
    IF rows = <<>> THEN <<>>
    ELSE InsertByYear(OrderByYear(SubSeq(rows, 1, Len(rows) - 1)), rows[Len(rows)])

\* LIMIT n OFFSET o
LimitOffset(rows, n, o) == SubSeq(rows, o + 1, Min(Len(rows), o + n))

\* SELECT ... WHERE name = :name AND item ILIKE :pat ORDER BY year ASC
SwimmerRows(tbl, name, pat) ==
    LET Match(r) == r.name = name /\ ILike(r.item, pat)
    IN  OrderByYear(SelectSeq(tbl, Match))

Range(f) == {f[i] : i \in DOMAIN f}

\* q_meets: the target's distinct (year, meet, item, grp) in the event
BaseMeets(tbl, name, pat) ==
    {[year |-> r.year, meet |-> r.meet, item |-> r.item, grp |-> r.grp] :
        r \in {x \in Range(tbl) : x.name = name /\ ILike(x.item, pat)}}

OpponentsOfMeet_AnyDivision(tbl, name, m) ==
    {r.name : r \in {x \in Range(tbl) :
        /\ x.year = m.year /\ x.meet = m.meet /\ x.item = m.item
        /\ x.name # name}}

\* q_opp: the other swimmers of one meet of the target, with the same
\* division when the target's division there is not a number
OpponentsOfMeet(tbl, name, m) ==
    {r.name : r \in {x \in Range(tbl) :
        /\ x.year = m.year /\ x.meet = m.meet /\ x.item = m.item
        /\ (same_numeric_group(m.grp) \/ x.grp = m.grp)
        /\ x.name # name}}

\* the keys of the dict `opponents`
Opponents(tbl, name, pat) ==
    UNION {OpponentsOfMeet(tbl, name, m) : m \in BaseMeets(tbl, name, pat)}

-----------------------------------------------------------------------------
(* Personal-best reducers: the four loops of /pb, /summary and /rank *)

\* the values of the column "result" in the tables below
T2990 == <<"2", "9", ".", "9", "0">>
T3000 == <<"3", "0", ".", "0", "0">>
T3150 == <<"3", "1", ".", "5", "0">>
T3300 == <<"3", "3", ".", "0", "0">>
TZero == <<"0">>
TNeg == <<"-", "1", ".", "5">>
TMin == <<"1", ":", "0", "2", ".", "5">>
TBad == <<"D", "Q">>
TNan == <<"n", "a", "n">>

ResultStrings == {T2990, T3000, T3150, T3300, TZero, TNeg, TMin, TBad, TNan}

\* parse_seconds over the column "result", tabulated
SecondsOf == [s \in ResultStrings |-> parse_seconds(Str(s))]

\* sec = parse_seconds(r["result"]) of every loop over rows
Seconds(r) == SecondsOf[r.result]

\* best = (sec, year8, meet); meet is the source row's raw meet name (the
\* code stores its display form, clean_meet_name(meet))
Best(sec, r) == [k |-> "best", sec |-> sec, year |-> r.year, meet |-> r.meet]

\* if best is None or sec < best[0]: best = (sec, ...)
Better(sec, r, best) ==
    IF IsNone(best) \/ FLt(sec, best.sec) THEN Best(sec, r) ELSE best

RECURSIVE MinScan(_, _)
\* the loop over the rows that were not skipped
MinScan(rows, best) ==
    IF rows = <<>> THEN best
    ELSE MinScan(Tail(rows), Better(Seconds(Head(rows)), Head(rows), best))

Parsed(sec) == ~IsNone(sec)

ParsedPositive_ZeroAllowed(sec) == ~IsNone(sec) /\ ~FLt(sec, Num(0, 0))

\* not (sec is None or sec <= 0)
ParsedPositive(sec) == ~IsNone(sec) /\ ~FLeZero(sec)

\* /pb, lines 237-244: skip winter short-course rows and unparseable results
PbKeep(r) == ~is_winter_short_course(r.meet) /\ Parsed(Seconds(r))

\* /summary family loop, lines 337-343
FamilyKeep(r) == Parsed(Seconds(r)) /\ ~is_winter_short_course(r.meet)

\* /summary analysis loop, lines 307-314
AnalysisKeep(r) == ~is_winter_short_course(r.meet) /\ ParsedPositive(Seconds(r))

\* best_of loop of /rank (lines 697-704) and of /summary (lines 489-496)
BestOfKeep(r) == ~is_winter_short_course(r.meet) /\ ParsedPositive(Seconds(r))

PbRowLimit == 2000
BestOfRowLimit == 5000

\* best_of(player)
best_of(tbl, player, pat) ==
    MinScan(SelectSeq(LimitOffset(SwimmerRows(tbl, player, pat), BestOfRowLimit, 0),
                      BestOfKeep), None)

-----------------------------------------------------------------------------
(* Responses.  status is the HTTP status the caller sees; dbfail (a query  *)
(* raised during the request) and retried (queries were issued again after *)
(* a query had raised) record what happened inside the handler.            *)

Item(r) == [year |-> r.year, meet |-> r.meet, item |-> r.item, name |-> r.name,
            result |-> r.result, grp |-> r.grp, seconds |-> Seconds(r)]

Items(rows) == [i \in 1..Len(rows) |-> Item(rows[i])]

\* next_cursor = cursor + limit if len(rows) == limit else None
NextCursor(rows, limit, cursor) ==
    IF Len(rows) = limit THEN PInt(cursor + limit) ELSE None

ServerError(ep, name, stroke) ==
    [ep |-> ep, status |-> 500, dbfail |-> TRUE, retried |-> FALSE,
     name |-> name, stroke |-> stroke]

ResultsBody(name, stroke, limit, cursor, rows) ==
    [ep |-> "results", status |-> 200, dbfail |-> FALSE, retried |-> FALSE,
     name |-> name, stroke |-> stroke,
     items |-> Items(rows), nextCursor |-> NextCursor(rows, limit, cursor)]

\* /results, lines 171-220: a failing query becomes HTTPException(500)
ResultsResponse(tbl, name, stroke, limit, cursor, fail) ==
    IF fail THEN ServerError("results", name, stroke)
    ELSE ResultsBody(name, stroke, limit, cursor,
                     LimitOffset(SwimmerRows(tbl, name, Strip(stroke)), limit, cursor))

PbBody(name, stroke, best, fail) ==
    [ep |-> "pb", status |-> 200, dbfail |-> fail, retried |-> FALSE,
     name |-> name, stroke |-> stroke,
     pb_seconds |-> IF IsNone(best) THEN None ELSE best.sec,
     year |-> IF IsNone(best) THEN None ELSE PInt(best.year),
     from_meet |-> IF IsNone(best) THEN None ELSE Str(best.meet)]

\* /pb, lines 248-249: except Exception: return the null-PB body
PbOnError(name, stroke) == PbBody(name, stroke, None, TRUE)

\* /pb, lines 223-249
PbResponse(tbl, name, stroke, fail) ==
    IF fail THEN PbOnError(name, stroke)
    ELSE PbBody(name, stroke,
                MinScan(SelectSeq(LimitOffset(SwimmerRows(tbl, name, Strip(stroke)),
                                              PbRowLimit, 0), PbKeep), None),
                FALSE)

-----------------------------------------------------------------------------
(* /rank and the leaderTrend block of /summary: board, rank, percentile *)

\* the orders in which the dict `opponents` can hold its keys: the queries
\* that fill it have no ORDER BY
MaxShuffled == 3

RECURSIVE SomeOrder(_)
SomeOrder(S) ==
    IF S = {} THEN <<>>
    ELSE <<CHOOSE x \in S : TRUE>> \o SomeOrder(S \ {CHOOSE x \in S : TRUE})

\* every order of a pool of at most MaxShuffled swimmers; one order and its
\* reverse of a larger pool
OpponentOrders(S) ==
    IF Cardinality(S) <= MaxShuffled
    THEN {f \in [1..Cardinality(S) -> S] : \A i, j \in DOMAIN f : i # j => f[i] # f[j]}
    ELSE {SomeOrder(S), [i \in 1..Cardinality(S) |-> SomeOrder(S)[Cardinality(S) + 1 - i]]}

\* b = best_of(nm); if b: board.append({...})
BoardAppend(nm, b) ==
    IF IsNone(b) THEN <<>>
    ELSE <<[k |-> "entry", name |-> nm, pb |-> b.sec, pb_year |-> b.year,
            pb_meet |-> b.meet]>>

RECURSIVE BuildBoard(_, _, _)
\* for nm in all_names: ...
BuildBoard(tbl, names, pat) ==
    IF names = <<>> THEN <<>>
    ELSE BoardAppend(Head(names), best_of(tbl, Head(names), pat))
         \o BuildBoard(tbl, Tail(names), pat)

\* board.sort(key=lambda x: x["pb"]), line 726, as CPython sorts a list
\* shorter than 64: the leading run (reversed when strictly descending),
\* then binary insertion of the rest.  On keys that < orders totally this
\* is the stable ascending sort; with nan among the keys, for which every
\* comparison is False, it is the list these steps leave.
Reverse(s) == [i \in 1..Len(s) |-> s[Len(s) + 1 - i]]

RECURSIVE RunEnd(_, _, _)
\* count_run: the run goes on while "next < previous" is what it was
RunEnd(board, i, descending) ==
    IF i > Len(board) THEN Len(board)
    ELSE IF FLt(board[i].pb, board[i - 1].pb) = descending
         THEN RunEnd(board, i + 1, descending)
         ELSE i - 1

RECURSIVE Bisect(_, _, _, _)
\* binarysort: the place of the pivot among sorted[l+1..r]
Bisect(sorted, pivot, l, r) ==
    IF l >= r THEN l
    ELSE IF FLt(pivot.pb, sorted[l + (r - l) \div 2 + 1].pb)
         THEN Bisect(sorted, pivot, l, l + (r - l) \div 2)
         ELSE Bisect(sorted, pivot, l + (r - l) \div 2 + 1, r)

InsertAt(sorted, l, x) ==
    SubSeq(sorted, 1, l) \o <<x>> \o SubSeq(sorted, l + 1, Len(sorted))

RECURSIVE BinarySort(_, _)
BinarySort(sorted, rest) ==
    IF rest = <<>> THEN sorted
    ELSE BinarySort(InsertAt(sorted, Bisect(sorted, Head(rest), 0, Len(sorted)),
                             Head(rest)),
                    Tail(rest))

SortRun(board, n, descending) ==
    BinarySort(IF descending THEN Reverse(SubSeq(board, 1, n)) ELSE SubSeq(board, 1, n),
               SubSeq(board, n + 1, Len(board)))

SortFrom(board, descending) == SortRun(board, RunEnd(board, 3, descending), descending)

SortByPb(board) ==
    IF Len(board) < 2 THEN board
    ELSE SortFrom(board, FLt(board[2].pb, board[1].pb))

\* for i, row in enumerate(board, start=1): row["rank"] = i
WithRanks(board) ==
    [i \in 1..Len(board) |->
        [k |-> "entry", name |-> board[i].name, pb |-> board[i].pb,
         pb_year |-> board[i].pb_year, pb_meet |-> board[i].pb_meet, rank |-> i]]

\* all_names: the opponents, then the target (never among the opponents)
AllNames(order, name) ==
    IF \E i \in DOMAIN order : order[i] = name THEN order ELSE Append(order, name)

RankedBoard(tbl, name, pat, order) ==
    WithRanks(SortByPb(BuildBoard(tbl, AllNames(order, name), pat)))

\* next((x for x in board if x["name"] == name), None)
You(board, name) ==
    IF \E i \in DOMAIN board : board[i].name = name
    THEN board[CHOOSE i \in DOMAIN board :
                   board[i].name = name /\ \A j \in 1..(i - 1) : board[j].name # name]
    ELSE None

Ratio(num, den) == [k |-> "ratio", num |-> num, den |-> den]

\* line 733: 100 * (denominator - rank_no) / denominator, an exact quotient
Percentile(denominator, rank_no) == Ratio(100 * (denominator - rank_no), denominator)

TopK == 10
AroundSpan == 3

\* lines 739-744: board[j] for j in range(max(0, idx-3), min(denominator, idx+3)), j != idx
AroundOf(board, idx) ==
    SubSeq(board, Max(0, idx - AroundSpan) + 1, idx)
    \o SubSeq(board, idx + 2, Min(Len(board), idx + AroundSpan))

Around(board, you) == IF IsNone(you) THEN <<>> ELSE AroundOf(board, you.rank - 1)

TrendPoint(r) == [year |-> r.year, seconds |-> Seconds(r), meet |-> r.meet]

TrendKeep(r) == ParsedPositive(Seconds(r))

TrendPoints(rows) == [i \in 1..Len(rows) |-> TrendPoint(rows[i])]

\* the leader's whole history in the event, winter short-course rows included
LeaderTrend(tbl, leader, pat) ==
    TrendPoints(SelectSeq(LimitOffset(SwimmerRows(tbl, leader, pat), BestOfRowLimit, 0),
                          TrendKeep))

RankEmpty(name, stroke, opp) ==
    [ep |-> "rank", status |-> 200, dbfail |-> FALSE, retried |-> FALSE,
     name |-> name, stroke |-> stroke, opponents |-> opp,
     denominator |-> 0, rank |-> None, percentile |-> None,
     leader |-> None, you |-> None, around |-> <<>>, top |-> <<>>, leaderTrend |-> <<>>,
     board |-> <<>>]

YouOut(name, you) ==
    IF IsNone(you)
    THEN [name |-> name, pb_seconds |-> None, pb_year |-> None, pb_meet |-> None,
          rank |-> None]
    ELSE [name |-> name, pb_seconds |-> you.pb, pb_year |-> PInt(you.pb_year),
          pb_meet |-> Str(you.pb_meet), rank |-> PInt(you.rank)]

\* lines 730-776; opponents (the keys of the dict) and board (the whole
\* sorted list) are the handler's locals, kept next to what it returns
RankBody(tbl, name, stroke, opp, board, you) ==
    [ep |-> "rank", status |-> 200, dbfail |-> FALSE, retried |-> FALSE,
     name |-> name, stroke |-> stroke, opponents |-> opp,
     denominator |-> Len(board),
     rank |-> IF IsNone(you) THEN None ELSE PInt(you.rank),
     percentile |-> IF IsNone(you) THEN None ELSE Percentile(Len(board), you.rank),
     leader |-> [name |-> board[1].name, pb_seconds |-> board[1].pb, rank |-> 1],
     you |-> YouOut(name, you),
     around |-> Around(board, you),
     top |-> SubSeq(board, 1, Min(TopK, Len(board))),
     leaderTrend |-> LeaderTrend(tbl, board[1].name, Strip(stroke)),
     board |-> board]

\* lines 718-723: if not board: return the empty response
RankOfBoard(tbl, name, stroke, opp, board) ==
    IF board = <<>> THEN RankEmpty(name, stroke, opp)
    ELSE RankBody(tbl, name, stroke, opp, board, You(board, name))

\* lines 678-684: if not opponents: return the empty response
RankOfPool(tbl, name, stroke, opp, order) ==
    IF opp = {} THEN RankEmpty(name, stroke, opp)
    ELSE RankOfBoard(tbl, name, stroke, opp,
                     RankedBoard(tbl, name, Strip(stroke), order))

\* /rank, lines 619-776; order is the key order of `opponents`; a failing
\* query leaves the handler as an exception
RankResponse(tbl, name, stroke, order, fail) ==
    IF fail THEN ServerError("rank", name, stroke)
    ELSE RankOfPool(tbl, name, stroke, Opponents(tbl, name, Strip(stroke)), order)

-----------------------------------------------------------------------------
(* /summary, lines 252-618 *)

Breast == <<"wa", "shi">>
Back == <<"yang", "shi">>
Free == <<"zi", "you", "shi">>
Fly == <<"die", "shi">>

\* families = ["蛙式", "仰式", "自由式", "蝶式"] in pinyin
Families == {Breast, Back, Free, Fly}

RECURSIVE SumSecs(_)
SumSecs(rows) == IF rows = <<>> THEN Num(0, 0)
                 ELSE FAdd(SumSecs(SubSeq(rows, 1, Len(rows) - 1)),
                           Seconds(rows[Len(rows)]))

\* sec is not None and sec > 0
ValidSec(sec) == ~IsNone(sec) /\ FGtZero(sec)

ValidRow(r) == ValidSec(Seconds(r))

AvgOf(valid) ==
    IF valid = <<>> THEN None
    ELSE [k |-> "avg", sum |-> SumSecs(valid), n |-> Len(valid)]

\* avg_seconds = sum(valid_secs) / len(valid_secs), kept as the pair
AvgSeconds(rows) == AvgOf(SelectSeq(rows, ValidRow))

FamilyEntry(count, best) ==
    [count |-> count,
     pb_seconds |-> IF IsNone(best) THEN None ELSE best.sec,
     year |-> IF IsNone(best) THEN None ELSE PInt(best.year),
     from_meet |-> IF IsNone(best) THEN None ELSE Str(best.meet)]

FamilyOfRows(rws) == FamilyEntry(Len(rws), MinScan(SelectSeq(rws, FamilyKeep), None))

\* one entry of fam_out: count and PB over every row of a stroke family
FamilyOut(tbl, name, fam) ==
    FamilyOfRows(LimitOffset(SwimmerRows(tbl, name, fam), PbRowLimit, 0))

\* trend_points: the items whose seconds is truthy
TrendItem(it) == ~IsNone(it.seconds) /\ FTruthy(it.seconds)

TrendOut(trend) ==
    [i \in 1..Len(trend) |-> [year |-> trend[i].year, seconds |-> trend[i].seconds]]

LeaderTrendOfBoard(tbl, pat, board) ==
    IF board = <<>> THEN <<>> ELSE LeaderTrend(tbl, board[1].name, pat)

\* one leaderTrend block (lines 445-521): no early return on an empty pool
LeaderTrendBlock(tbl, name, pat, order) ==
    LeaderTrendOfBoard(tbl, pat, SortByPb(BuildBoard(tbl, AllNames(order, name), pat)))

\* fail: "none"; "main" (the detail or a family query raises: the exception
\* leaves the handler); "lt1" (a query of the first leaderTrend block raises:
\* caught, the second block runs the same queries); "lt2" (a query of the
\* second block raises: caught, the block nested in the except clause runs
\* them again); "lt2lt3" (that nested block raises too: caught, [])
SummaryFails == {"none", "main", "lt1", "lt2", "lt2lt3"}

AnalysisPb(best) == IF IsNone(best) THEN None ELSE best.sec

SummaryBody(tbl, name, stroke, limit, cursor, rows, leaderTrend, fail) ==
    [ep |-> "summary", status |-> 200,
     dbfail |-> fail # "none", retried |-> fail # "none",
     name |-> name, stroke |-> stroke,
     analysis |-> [meetCount |-> Len(rows),
                   avg_seconds |-> AvgSeconds(rows),
                   pb_seconds |-> AnalysisPb(MinScan(SelectSeq(rows, AnalysisKeep), None))],
     family |-> [fam \in Families |-> FamilyOut(tbl, name, fam)],
     trend |-> TrendOut(SelectSeq(Items(rows), TrendItem)),
     leaderTrend |-> leaderTrend,
     items |-> Items(rows),
     nextCursor |-> NextCursor(rows, limit, cursor)]

SummaryResponse(tbl, name, stroke, limit, cursor, order, fail) ==
    IF fail = "main" THEN ServerError("summary", name, stroke)
    ELSE SummaryBody(tbl, name, stroke, limit, cursor,
                     LimitOffset(SwimmerRows(tbl, name, Strip(stroke)), limit, cursor),
                     IF fail = "lt2lt3" THEN <<>>
                     ELSE LeaderTrendBlock(tbl, name, Strip(stroke), order),
                     fail)

-----------------------------------------------------------------------------
(* Table contents and request inputs *)

MaxRows == 3
MaxCursor == 1

Event50 == <<"5", "0", "gong", "chi", "wa", "shi">>
EventGirls50 == <<"nv", "zi">> \o Event50
Event100 == <<"1", "0", "0", "gong", "chi", "wa", "shi">>

MayorCup == <<"shi", "zhang", "bei">>
WinterMeet == <<"quan", "guo">> \o WinterShort
WinterMeet2 == <<"dong", "ling", "ying">> \o ShortCourse
ShortMeet == <<"shi", "zhang", "bei">> \o ShortCourse

G12 == <<"1", "2">>
GF == <<"nv">>

\* rows that differ in result and meet: one event, one numeric division
TimeRows ==
    << Row("A", 20230601, MayorCup, Event50, T3150, G12),
       Row("A", 20230601, MayorCup, Event50, TZero, G12),
       Row("A", 20230601, MayorCup, Event50, TBad, G12),
       Row("A", 20230101, WinterMeet, Event50, T2990, G12),
       Row("A", 20230101, WinterMeet, Event50, T3150, G12),
       Row("A", 20230101, WinterMeet2, Event50, T2990, G12),
       Row("A", 20230101, ShortMeet, Event50, T3000, G12),
       Row("A", 20220101, MayorCup, Event50, TNeg, G12),
       Row("A", 20220101, MayorCup, Event50, TMin, G12),
       Row("A", 20220101, MayorCup, Event100, T2990, G12),
       Row("B", 20230601, MayorCup, Event50, T3000, G12),
       Row("B", 20230601, MayorCup, Event50, TBad, G12),
       Row("B", 20230101, WinterMeet, Event50, T3000, G12),
       Row("C", 20230601, MayorCup, Event50, T3300, G12) >>

PoolRowsOf(n) ==
    << Row(n, 20230601, MayorCup, Event50, T3000, G12),
       Row(n, 20230601, MayorCup, Event50, T3000, GF),
       Row(n, 20230601, MayorCup, Event50, T3000, <<>>),
       Row(n, 20230601, MayorCup, EventGirls50, T3000, G12),
       Row(n, 20220101, MayorCup, Event50, T3000, G12),
       Row(n, 20230601, ShortMeet, Event50, T3000, G12) >>

\* rows that differ in date, meet, event and division: one result
PoolRows == PoolRowsOf("A") \o PoolRowsOf("B")

RECURSIVE SubTables(_, _)
\* the tables of at most h rows taken from a list of rows, in its order
SubTables(rows, h) ==
    IF rows = <<>> \/ h = 0 THEN {<<>>}
    ELSE SubTables(Tail(rows), h)
         \cup {<<Head(rows)>> \o t : t \in SubTables(Tail(rows), h - 1)}

Tables == SubTables(TimeRows, MaxRows) \cup SubTables(PoolRows, MaxRows)

MaxBoard == 12

BoardResults == <<T3000, T2990, T3300, T3150>>

BoardRow(n, r) == Row(n, 20230601, MayorCup, Event50, r, G12)

\* n opponents of the target at one meet, their results taken in turn
OpponentRows(n, shift) ==
    [i \in 1..n |-> BoardRow(ToString(i), BoardResults[((i + shift) % Len(BoardResults)) + 1])]

NanRows ==
    << BoardRow("B", T3000), BoardRow("C", TNan), BoardRow("A", T2990),
       BoardRow("A", TNan), BoardRow("B", TNan) >>

\* boards of up to MaxBoard + 1 swimmers, and small boards with a result
\* that parses to nan
BoardTables ==
    {<<BoardRow("A", t)>> \o OpponentRows(n, shift) :
        t \in {T2990, T3000, T3150, TBad}, n \in 0..MaxBoard, shift \in 0..1}
    \cup SubTables(NanRows, MaxRows)

Targets == {"A"}
Strokes == {Event50}
Limits == {1, 200}
Cursors == 0..MaxCursor

NoResp == [ep |-> "none"]

NoClient == [ep |-> "none"]

\* GET /results and GET /summary take name, stroke, limit and cursor;
\* GET /pb and GET /rank take name and stroke
NoReq == [ep |-> "none", name |-> "", stroke |-> <<>>, limit |-> 0, cursor |-> 0]

Requests ==
    {[ep |-> e, name |-> n, stroke |-> s, limit |-> l, cursor |-> c] :
        e \in {"results", "summary"}, n \in Targets, s \in Strokes,
        l \in Limits, c \in Cursors}
    \cup
    {[ep |-> e, name |-> n, stroke |-> s, limit |-> 0, cursor |-> 0] :
        e \in {"pb", "rank"}, n \in Targets, s \in Strokes}

-----------------------------------------------------------------------------
(* Requests.  get_db opens the Session before the handler runs and closes  *)
(* it in its finally clause once the handler has returned or raised.       *)

Init ==
    /\ table \in Tables
    /\ phase = "idle"
    /\ req = NoReq
    /\ sess = "none"
    /\ closes = 0
    /\ resp = NoResp
    /\ arg = None
    /\ ret = Unset
    /\ client = NoClient

\* the same service over the tables with large boards
InitBoard ==
    /\ table \in BoardTables
    /\ phase = "idle"
    /\ req = NoReq
    /\ sess = "none"
    /\ closes = 0
    /\ resp = NoResp
    /\ arg = None
    /\ ret = Unset
    /\ client = NoClient

\* a request arrives and the framework resolves Depends(get_db);
\* get_db, lines 15-17: db = SessionLocal(); yield db
OpenSession ==
    /\ phase = "idle"
    /\ phase' = "open"
    /\ req' \in Requests
    /\ sess' = "open"
    /\ closes' = 0
    /\ resp' = NoResp
    /\ UNCHANGED <<table, arg, ret, client>>

Respond(r) ==
    /\ phase' = "responded"
    /\ resp' = r
    /\ UNCHANGED <<table, req, sess, closes, arg, ret, client>>

\* each handler: a query raises at once, or the handler runs on
Results ==
    /\ phase = "open" /\ req.ep = "results"
    /\ \/ Respond(ResultsResponse(table, req.name, req.stroke, req.limit, req.cursor, TRUE))
       \/ Respond(ResultsResponse(table, req.name, req.stroke, req.limit, req.cursor, FALSE))

Pb ==
    /\ phase = "open" /\ req.ep = "pb"
    /\ \/ Respond(PbResponse(table, req.name, req.stroke, TRUE))
       \/ Respond(PbResponse(table, req.name, req.stroke, FALSE))

Summary ==
    /\ phase = "open" /\ req.ep = "summary"
    /\ \/ Respond(SummaryResponse(table, req.name, req.stroke, req.limit, req.cursor,
                                   <<>>, "main"))
       \/ \E fail \in SummaryFails \ {"main"},
             order \in OpponentOrders(Opponents(table, req.name, Strip(req.stroke))) :
             Respond(SummaryResponse(table, req.name, req.stroke, req.limit, req.cursor,
                                     order, fail))

Rank ==
    /\ phase = "open" /\ req.ep = "rank"
    /\ \/ Respond(RankResponse(table, req.name, req.stroke, <<>>, TRUE))
       \/ \E order \in OpponentOrders(Opponents(table, req.name, Strip(req.stroke))) :
             Respond(RankResponse(table, req.name, req.stroke, order, FALSE))

ClosesOnExit_NoFinally(r) == r.status = 200

\* get_db, lines 18-19: finally: db.close(), whatever the handler did
ClosesOnExit(r) == TRUE

\* what is left of a response once it has been sent: its outcome
Delivered(r) ==
    [ep |-> "delivered", status |-> r.status, dbfail |-> r.dbfail, retried |-> r.retried]

\* the framework resumes get_db after the handler, then delivers the
\* response: the request ends
FinishRequest ==
    /\ phase = "responded"
    /\ phase' = "idle"
    /\ sess' = IF ClosesOnExit(resp) THEN "closed" ELSE sess
    /\ closes' = IF ClosesOnExit(resp) THEN closes + 1 ELSE closes
    /\ req' = NoReq
    /\ resp' = Delivered(resp)
    /\ UNCHANGED <<table, arg, ret, client>>

Handle == Results \/ Pb \/ Summary \/ Rank

Next == OpenSession \/ Results \/ Pb \/ Summary \/ Rank \/ FinishRequest

Spec == Init /\ [][Next]_vars

SpecBoard == InitBoard /\ [][Next]_vars

\* the framework calls the handler once the dependency has yielded, and
\* resumes the dependency once the handler has returned or raised
FairSpec == Spec /\ WF_vars(Handle) /\ WF_vars(FinishRequest)

-----------------------------------------------------------------------------
(* Helper calls: the time parsers applied to bounded strings *)

MaxStrLen == 4
MaxSegLen == 1
MaxFracLen == 1

Alphabet == {"0", "1", "5", ":", ".", "-", " ", "i", "n", "f"}
SegDigits == {"0", "1", "5"}

StrsUpTo(S, n) == UNION {[1..h -> S] : h \in 0..n}
StrsFrom(S, lo, hi) == UNION {[1..h -> S] : h \in lo..hi}

\* every string over Alphabet of at most MaxStrLen characters
FreeStrs == StrsUpTo(Alphabet, MaxStrLen)

\* digit segments, and a seconds segment with an optional fraction
Segments == StrsFrom(SegDigits, 1, MaxSegLen)
SecSegments == Segments \cup
               {ip \o <<".">> \o fp : ip \in Segments,
                                      fp \in StrsFrom(SegDigits, 1, MaxFracLen)}

\* "SS.ss", "MM:SS.ss" and "HH:MM:SS.ss"
TimeStrs1 == SecSegments
TimeStrs2 == {mm \o <<":">> \o ss : mm \in Segments, ss \in SecSegments}
TimeStrs3 == {hh \o <<":">> \o t : hh \in Segments, t \in TimeStrs2}

HelperArgs == {None} \cup {Str(s) : s \in FreeStrs \cup TimeStrs1 \cup TimeStrs2 \cup TimeStrs3}

InitParse ==
    /\ table = <<>>
    /\ phase = "idle"
    /\ req = NoReq
    /\ sess = "none"
    /\ closes = 0
    /\ resp = NoResp
    /\ arg \in HelperArgs
    /\ ret = Unset
    /\ client = NoClient

CallParseSeconds ==
    /\ ret = Unset
    /\ ret' = [fn |-> "parse_seconds", val |-> parse_seconds(arg)]
    /\ UNCHANGED <<table, phase, req, sess, closes, resp, arg, client>>

CallConvertToSeconds ==
    /\ ret = Unset
    /\ ret' = [fn |-> "convert_to_seconds", val |-> convert_to_seconds(arg)]
    /\ UNCHANGED <<table, phase, req, sess, closes, resp, arg, client>>

NextParse == CallParseSeconds \/ CallConvertToSeconds

SpecParse == InitParse /\ [][NextParse]_vars

-----------------------------------------------------------------------------
(* app/routes.py: clean_meet_name; app/utils_swim.py: simplify_category *)

StartsWithAt(s, i, pat) ==
    i + Len(pat) - 1 <= Len(s) /\ SubSeq(s, i, i + Len(pat) - 1) = pat

RECURSIVE ReplaceFrom(_, _, _, _)
ReplaceFrom(s, i, src, repl) ==
    IF i > Len(s) THEN <<>>
    ELSE IF StartsWithAt(s, i, src) THEN repl \o ReplaceFrom(s, i + Len(src), src, repl)
    ELSE <<s[i]>> \o ReplaceFrom(s, i + 1, src, repl)

\* out.replace(src, repl): every occurrence, left to right, without overlap
\* (nothing changes when src does not occur, so `if src in out` adds nothing)
Replace(s, src, repl) == ReplaceFrom(s, 1, src, repl)

\* _MEET_MAP of routes.py, lines 36-53, in its order
MEET_MAP ==
    << << <<"tai2", "zhong", "shi", "1", "1", "4", "nian", "shi", "zhang", "bei", "shui",
             "shang", "yun", "dong4", "jing", "sai", "(", "you2", "yong", "xiang", "mu", ")">>,
          <<"tai", "zhong", "shi", "zhang", "bei">> >>,
       << <<"quan", "guo", "dong", "ji", "duan", "shui", "dao", "you2", "yong", "jin", "biao",
             "sai">>,
          <<"quan", "guo", "dong", "duan">> >>,
       << <<"quan", "guo", "zong", "tong", "bei", "ji4", "mei", "jin1", "nong", "you2", "yong",
             "jin", "biao", "sai">>,
          <<"quan", "guo", "zong", "tong", "bei">> >>,
       << <<"quan", "guo", "zong", "tong", "bei", "ji4", "mei", "jin1", "nong", "fen", "ling2",
             "you2", "yong", "jin", "biao", "sai">>,
          <<"quan", "guo", "zong", "tong", "bei">> >>,
       << <<"dong", "ji", "duan", "shui", "dao">>,
          <<"dong", "duan">> >>,
       << <<"quan", "guo", "yun", "dong4", "hui", "tai2", "nan", "shi", "you2", "yong", "dai",
             "biao3", "dui", "xuan", "ba", "sai">>,
          <<"tai", "nan", "quan", "yun", "hui", "xuan", "ba">> >>,
       << <<"quan", "guo", "qing", "shao", "nian", "you2", "yong", "jin", "biao", "sai">>,
          <<"quan", "guo", "qing", "shao", "nian">> >>,
       << <<"tai2", "zhong", "shi", "yi", "zhang", "bei">>,
          <<"tai", "zhong", "yi", "zhang", "bei">> >>,
       << <<"tai2", "zhong", "shi", "shi", "zhang", "bei">>,
          <<"tai", "zhong", "shi", "zhang", "bei">> >>,
       << <<"(", "you2", "yong", "xiang", "mu", ")">>,
          <<>> >>,
       << <<"chun", "ji", "you2", "yong", "jin", "biao", "sai">>,
          <<"chun", "zhang">> >>,
       << <<"quan", "guo", "E", "shi4", "dai", "qing", "shao", "nian">>,
          <<"E", "shi4", "dai">> >>,
       << <<"tai2", "nan", "shi", "shi", "zhang", "bei", "duan", "shui", "dao">>,
          <<"tai", "nan", "shi", "zhang", "bei">> >>,
       << <<"tai2", "nan", "shi", "zhong", "xiao", "xue">>,
          <<"tai", "nan", "zhong", "xiao", "xue">> >>,
       << <<"tai2", "nan", "shi", "wei", "yuan", "bei">>,
          <<"tai", "nan", "wei", "yuan", "bei">> >>,
       << <<"tai2", "nan", "shi", "quan", "guo", "yun", "dong4", "hui", "you2", "yong", "xuan",
             "ba", "sai">>,
          <<"tai", "nan", "quan", "yun", "hui", "xuan", "ba">> >> >>

\* _MEET_MAP of utils_swim.py, lines 35-52, in the dict's insertion order
MEET_MAP_DICT ==
    << << <<"tai2", "zhong", "shi", "1", "1", "4", "nian", "shi", "zhang", "bei", "shui",
             "shang", "yun", "dong4", "jing", "sai", "(", "you2", "yong", "xiang", "mu", ")">>,
          <<"tai", "zhong", "shi", "zhang", "bei">> >>,
       << <<"quan", "guo", "dong", "ji", "duan", "shui", "dao", "you2", "yong", "jin", "biao",
             "sai">>,
          <<"quan", "guo", "dong", "duan">> >>,
       << <<"quan", "guo", "zong", "tong", "bei", "ji4", "mei", "jin1", "nong", "you2", "yong",
             "jin", "biao", "sai">>,
          <<"quan", "guo", "zong", "tong", "bei">> >>,
       << <<"quan", "guo", "zong", "tong", "bei", "ji4", "mei", "jin1", "nong", "fen", "ling2",
             "you2", "yong", "jin", "biao", "sai">>,
          <<"quan", "guo", "zong", "tong", "bei">> >>,
       << <<"dong", "ji", "duan", "shui", "dao">>,
          <<"dong", "duan">> >>,
       << <<"quan", "guo", "yun", "dong4", "hui", "tai2", "nan", "shi", "you2", "yong", "dai",
             "biao3", "dui", "xuan", "ba", "sai">>,
          <<"tai", "nan", "quan", "yun", "hui", "xuan", "ba">> >>,
       << <<"quan", "guo", "qing", "shao", "nian", "you2", "yong", "jin", "biao", "sai">>,
          <<"quan", "guo", "qing", "shao">> >>,
       << <<"tai2", "zhong", "shi", "yi", "zhang", "bei">>,
          <<"tai", "zhong", "yi", "zhang", "bei">> >>,
       << <<"tai2", "zhong", "shi", "shi", "zhang", "bei">>,
          <<"tai", "zhong", "shi", "zhang", "bei">> >>,
       << <<"chun", "ji", "you2", "yong", "jin", "biao", "sai">>,
          <<"chun", "zhang">> >>,
       << <<"quan", "guo", "E", "shi4", "dai", "qing", "shao", "nian">>,
          <<"E", "shi4", "dai">> >>,
       << <<"tai2", "nan", "shi", "shi", "zhang", "bei", "duan", "shui", "dao">>,
          <<"tai", "nan", "shi", "zhang", "bei">> >>,
       << <<"tai2", "nan", "shi", "zhong", "xiao", "xue">>,
          <<"tai", "nan", "zhong", "xiao", "xue">> >>,
       << <<"tai2", "nan", "shi", "wei", "yuan", "bei">>,
          <<"tai", "nan", "wei", "yuan", "bei">> >>,
       << <<"tai2", "nan", "shi", "quan", "guo", "yun", "dong4", "hui", "you2", "yong", "xuan",
             "ba", "sai">>,
          <<"tai", "nan", "quan", "yun", "hui", "xuan", "ba">> >>,
       << <<"you2", "yong", "jin", "biao", "sai">>,
          <<>> >> >>

RECURSIVE ApplyMap(_, _, _)
\* for src, repl in map: out = out.replace(src, repl)
ApplyMap(out, map, i) ==
    IF i > Len(map) THEN out
    ELSE ApplyMap(Replace(out, map[i][1], map[i][2]), map, i + 1)

RECURSIVE LStrip(_)
LStrip(s) == IF Len(s) > 0 /\ s[1] = " " THEN LStrip(Tail(s)) ELSE s

RECURSIVE RStrip(_)
RStrip(s) ==
    IF Len(s) > 0 /\ s[Len(s)] = " " THEN RStrip(SubSeq(s, 1, Len(s) - 1)) ELSE s

\* re.compile(r"^\d{n}\s*").sub("", s)
DropLeadingDigits(s, n) ==
    IF Len(s) >= n /\ IsDigits(SubSeq(s, 1, n))
    THEN LStrip(SubSeq(s, n + 1, Len(s)))
    ELSE s

SwimChampionship == <<"you2", "yong", "jin", "biao", "sai">>
Youth == <<"qing", "shao", "nian">>
SwimmingEvents == <<"(", "you2", "yong", "xiang", "mu", ")">>

RECURSIVE RemoveNotAfterFrom(_, _, _, _)
RemoveNotAfterFrom(s, i, pat, behind) ==
    IF i > Len(s) THEN <<>>
    ELSE IF /\ StartsWithAt(s, i, pat)
            /\ ~(i > Len(behind) /\ SubSeq(s, i - Len(behind), i - 1) = behind)
         THEN RemoveNotAfterFrom(s, i + Len(pat), pat, behind)
         ELSE <<s[i]>> \o RemoveNotAfterFrom(s, i + 1, pat, behind)

\* re.compile(r"(?<!behind)pat").sub("", s): the look-behind reads the
\* subject string, removed text included
RemoveNotAfter(s, pat, behind) == RemoveNotAfterFrom(s, 1, pat, behind)

EndsWith(s, pat) ==
    Len(s) >= Len(pat) /\ SubSeq(s, Len(s) - Len(pat) + 1, Len(s)) = pat

\* re.compile(r"\s*pat\s*$").sub("", s)
RemoveTrailing(s, pat) ==
    IF EndsWith(RStrip(s), pat)
    THEN RStrip(SubSeq(s, 1, Len(RStrip(s)) - Len(pat)))
    ELSE s

RECURSIVE CollapseSpaces(_)
\* re.sub(r"\s{2,}", " ", s)
CollapseSpaces(s) ==
    IF Len(s) = 0 THEN s
    ELSE IF Len(s) >= 2 /\ s[1] = " " /\ s[2] = " " THEN CollapseSpaces(Tail(s))
    ELSE <<s[1]>> \o CollapseSpaces(Tail(s))

\* routes.py lines 66-68: the four patterns of _MEET_REGEX, in order
MeetRegex(out) ==
    RemoveTrailing(
        RemoveNotAfter(DropLeadingDigits(DropLeadingDigits(out, 4), 3),
                       SwimChampionship, Youth),
        SwimChampionship)

\* clean_meet_name(name), routes.py lines 61-69
clean_meet_name(x) ==
    IF IsNone(x) \/ x.s = <<>> THEN Str(<<>>)
    ELSE Str(Strip(CollapseSpaces(MeetRegex(ApplyMap(Strip(x.s), MEET_MAP, 1)))))

\* re.compile(r"^.*?nian").sub("", s): through the first occurrence
DropThroughYear(s) ==
    IF HasChar(s, "nian")
    THEN SubSeq(s, 1 + (CHOOSE i \in 1..Len(s) :
                            s[i] = "nian" /\ \A h \in 1..(i - 1) : s[h] # "nian"), Len(s))
    ELSE s

\* utils_swim.py lines 64-65: the four patterns of _MEET_REPLACEMENTS, in order
MeetReplacements(s) ==
    Replace(DropThroughYear(DropLeadingDigits(DropLeadingDigits(s, 4), 3)),
            SwimmingEvents, <<>>)

\* simplify_category(name), utils_swim.py lines 54-68
simplify_category(x) ==
    IF IsNone(x) \/ x.s = <<>> THEN Str(<<>>)
    ELSE Str(Strip(CollapseSpaces(MeetReplacements(ApplyMap(Strip(x.s), MEET_MAP_DICT, 1)))))

-----------------------------------------------------------------------------
(* Helper calls: the meet-name normalizers applied to their own output *)

MaxPieces == 3

\* digits, a space, and the words the substitution tables are made of
NamePieces ==
    { <<"1", "1", "4">>, <<"1">>, <<" ">>, <<"nian">>, <<"tai2", "zhong", "shi">>,
      <<"shi", "zhang", "bei">>, SwimmingEvents, <<"you2", "yong">>,
      <<"jin", "biao", "sai">>, Youth, <<"quan", "guo">>, <<"dong", "ji">>,
      ShortCourse, <<"chun", "ji">> }

RECURSIVE JoinPieces(_)
JoinPieces(ps) == IF ps = <<>> THEN <<>> ELSE Head(ps) \o JoinPieces(Tail(ps))

MeetNames ==
    {JoinPieces(ps) : ps \in UNION {[1..h -> NamePieces] : h \in 0..MaxPieces}}
    \cup {MEET_MAP[i][1] : i \in DOMAIN MEET_MAP}

InitNames ==
    /\ table = <<>>
    /\ phase = "idle"
    /\ req = NoReq
    /\ sess = "none"
    /\ closes = 0
    /\ resp = NoResp
    /\ arg \in {None} \cup {Str(s) : s \in MeetNames}
    /\ ret = Unset
    /\ client = NoClient

Returns(fn, val, first) ==
    /\ ret' = [fn |-> fn, val |-> val, first |-> first]
    /\ UNCHANGED <<table, phase, req, sess, closes, resp, arg, client>>

CallCleanMeetName ==
    /\ ret = Unset
    /\ Returns("clean_meet_name", clean_meet_name(arg), arg)

\* the function applied to what it returned
CallCleanMeetNameAgain ==
    /\ ret.fn = "clean_meet_name"
    /\ Returns("clean_meet_name twice", clean_meet_name(ret.val), ret.val)

CallSimplifyCategory ==
    /\ ret = Unset
    /\ Returns("simplify_category", simplify_category(arg), arg)

CallSimplifyCategoryAgain ==
    /\ ret.fn = "simplify_category"
    /\ Returns("simplify_category twice", simplify_category(ret.val), ret.val)

NextNames ==
    \/ CallCleanMeetName
    \/ CallCleanMeetNameAgain
    \/ CallSimplifyCategory
    \/ CallSimplifyCategoryAgain

SpecNames == InitNames /\ [][NextNames]_vars

-----------------------------------------------------------------------------
(* app/routes.py: stroke_family, and its calls on bounded event labels *)

FamilyList_BackFirst == <<Back, Breast, Free, Fly>>

\* line 81: for fam in ["蛙式", "仰式", "自由式", "蝶式"], in pinyin
FamilyList == <<Breast, Back, Free, Fly>>

RECURSIVE FirstFamilyIn(_, _, _)
\* lines 81-84: the first fam of the list with `fam in s`, else ""
FirstFamilyIn(s, fams, i) ==
    IF i > Len(fams) THEN <<>>
    ELSE IF Contains(s, fams[i]) THEN fams[i]
    ELSE FirstFamilyIn(s, fams, i + 1)

\* stroke_family(stroke_text), lines 78-84; s = str(stroke_text or "")
stroke_family(x) ==
    Str(FirstFamilyIn(IF IsNone(x) THEN <<>> ELSE x.s, FamilyList, 1))

Medley == <<"hun", "he", "shi">>

LabelPieces ==
    { <<"5", "0">>, <<"gong", "chi">>, <<"nv", "zi">>, <<" ">>, <<"shi">>,
      Breast, Back, Free, Fly, Medley }

EventLabels ==
    {JoinPieces(ps) : ps \in UNION {[1..h -> LabelPieces] : h \in 0..MaxPieces}}

InitLabels ==
    /\ table = <<>>
    /\ phase = "idle"
    /\ req = NoReq
    /\ sess = "none"
    /\ closes = 0
    /\ resp = NoResp
    /\ arg \in {None} \cup {Str(s) : s \in EventLabels}
    /\ ret = Unset
    /\ client = NoClient

CallStrokeFamily ==
    /\ ret = Unset
    /\ Returns("stroke_family", stroke_family(arg), arg)

SpecLabels == InitLabels /\ [][CallStrokeFamily]_vars

-----------------------------------------------------------------------------
(* A client that pages through /results or /summary: it starts at cursor 0 *)
(* and calls again with the nextCursor it was given until that is null.    *)

MaxPageRows == 4

PageRows ==
    << Row("A", 20220101, MayorCup, Event50, T3300, G12),
       Row("A", 20230101, ShortMeet, Event50, T3000, G12),
       Row("A", 20230601, MayorCup, Event50, T3150, G12),
       Row("A", 20230601, MayorCup, Event50, T2990, GF),
       Row("A", 20240101, MayorCup, Event50, T3000, G12),
       Row("A", 20230601, MayorCup, Event100, T3150, G12) >>

PageTables == SubTables(PageRows, MaxPageRows)

PageLimits == {1, 2, 3}

\* ORDER BY "year" ASC, lines 194 and 275: what one execution of the query
\* may return before LIMIT and OFFSET cut it.  The rows come in ascending
\* year; the order of rows of one year is not fixed by the query, and every
\* page is an execution of its own.
YearOrders(rows) ==
    {[i \in 1..Len(rows) |-> rows[f[i]]] :
        f \in {g \in [1..Len(rows) -> 1..Len(rows)] :
                 /\ \A i, j \in 1..Len(rows) : i # j => g[i] # g[j]
                 /\ \A i, j \in 1..Len(rows) : i < j => rows[g[i]].year <= rows[g[j]].year}}

\* the page LIMIT :limit OFFSET :offset cuts from one execution
Pages(tbl, name, pat, limit, cursor) ==
    {LimitOffset(sorted, limit, cursor) : sorted \in YearOrders(SwimmerRows(tbl, name, pat))}

\* the body /results or /summary builds from the rows of a page
PageResponse(c, tbl, rows, order) ==
    IF c.ep = "results"
    THEN ResultsBody(c.name, c.stroke, c.limit, c.cursor.v, rows)
    ELSE SummaryBody(tbl, c.name, c.stroke, c.limit, c.cursor.v, rows,
                     LeaderTrendBlock(tbl, c.name, Strip(c.stroke), order), "none")

InitPages ==
    /\ table \in PageTables
    /\ phase = "idle"
    /\ req = NoReq
    /\ sess = "none"
    /\ closes = 0
    /\ resp = NoResp
    /\ arg = None
    /\ ret = Unset
    /\ client \in {[ep |-> e, name |-> n, stroke |-> s, limit |-> l,
                    cursor |-> PInt(0), items |-> <<>>, calls |-> 0] :
                      e \in {"results", "summary"}, n \in Targets, s \in Strokes,
                      l \in PageLimits}

Called(r) ==
    /\ resp' = r
    /\ req' = [ep |-> client.ep, name |-> client.name, stroke |-> client.stroke,
               limit |-> client.limit, cursor |-> client.cursor.v]
    /\ UNCHANGED <<table, phase, sess, closes, arg, ret>>

\* the call fails (a query raises): status 500, nothing to go on with; the
\* client is where it was
FetchFails ==
    /\ client.ep # "none" /\ ~IsNone(client.cursor)
    /\ Called(ServerError(client.ep, client.name, client.stroke))
    /\ UNCHANGED client

\* the client takes the items of the page and the nextCursor
Received(r) ==
    /\ Called(r)
    /\ client' = [client EXCEPT !.cursor = r.nextCursor,
                                !.items = @ \o r.items,
                                !.calls = @ + 1]

FetchPage ==
    /\ client.ep # "none" /\ ~IsNone(client.cursor)
    /\ \E rows \in Pages(table, client.name, Strip(client.stroke),
                          client.limit, client.cursor.v),
          order \in OpponentOrders(Opponents(table, client.name, Strip(client.stroke))) :
          Received(PageResponse(client, table, rows, order))

NextPages == FetchFails \/ FetchPage

SpecPages == InitPages /\ [][NextPages]_vars

-----------------------------------------------------------------------------
(* Properties of the handlers *)

\* a finite number greater than 0
PositiveTime(v) == v.k = "num" /\ v.m > 0

NoPbOrPositive(v) == IsNone(v) \/ PositiveTime(v)

\* the rows of a swimmer in the queried event that may hold a PB: not a
\* winter short-course meet, and a result that parses to a number above 0
EligibleRows(tbl, name, pat) ==
    {r \in Range(tbl) : /\ r.name = name
                        /\ Contains(r.item, pat)
                        /\ ~is_winter_short_course(r.meet)
                        /\ ~IsNone(Seconds(r))
                        /\ PositiveTime(Seconds(r))}

MinOf(S) == IF S = {} THEN None ELSE CHOOSE v \in S : \A w \in S : ~FLt(w, v)

EligibleMin(tbl, name, pat) == MinOf({Seconds(r) : r \in EligibleRows(tbl, name, pat)})

PurelyNumeric(g) == Len(g) > 0 /\ \A i \in 1..Len(g) : g[i] \in Digits

\* the membership policy: another swimmer with a row on the (date, meet,
\* event) of a row of the target in the queried event, in the same division
\* unless the division of that row of the target is purely numeric
PolicyPool(tbl, name, pat) ==
    {n \in {r.name : r \in Range(tbl)} \ {name} :
        \E t \in Range(tbl), c \in Range(tbl) :
            /\ t.name = name /\ Contains(t.item, pat)
            /\ c.name = n
            /\ c.year = t.year /\ c.meet = t.meet /\ c.item = t.item
            /\ (PurelyNumeric(t.grp) \/ c.grp = t.grp)}

\* the pool members with a row of the event, outside the winter
\* short-course meets, whose result parses and is not <= 0
CountedPool(tbl, name, pat) ==
    {n \in PolicyPool(tbl, name, pat) :
        \E r \in Range(tbl) : /\ r.name = n
                              /\ Contains(r.item, pat)
                              /\ ~is_winter_short_course(r.meet)
                              /\ ~IsNone(Seconds(r))
                              /\ ~FLeZero(Seconds(r))}

RankOk == resp.ep = "rank" /\ resp.status = 200

\* C1: every personal best reported by /pb, by /summary (analysis and each
\* family) and on the board of /rank is either absent or a number above 0.
C1_PbPositive ==
    /\ (resp.ep = "pb" /\ resp.status = 200) => NoPbOrPositive(resp.pb_seconds)
    /\ (resp.ep = "summary" /\ resp.status = 200) =>
          /\ NoPbOrPositive(resp.analysis.pb_seconds)
          /\ \A fam \in Families : NoPbOrPositive(resp.family[fam].pb_seconds)
    /\ RankOk => \A i \in DOMAIN resp.top : PositiveTime(resp.top[i].pb)

\* C2: when the target is ranked, percentile = 100 * (N - rank + 1) / N.
C2_PercentileInclusive ==
    (RankOk /\ ~IsNone(resp.rank)) =>
        resp.percentile.num * resp.denominator
            = 100 * (resp.denominator - resp.rank.v + 1) * resp.percentile.den

\* C3: a target with a valid PB-eligible time in the event always gets a
\* rank between 1 and the denominator, also when it has no opponent.
C3_TargetRanked ==
    (RankOk /\ EligibleRows(table, resp.name, Strip(resp.stroke)) # {}) =>
        /\ ~IsNone(resp.rank)
        /\ 1 <= resp.rank.v
        /\ resp.rank.v <= resp.denominator

TargetUnranked ==
    RankOk /\ EligibleRows(table, resp.name, Strip(resp.stroke)) = {}

\* C4 as stated: a target without a valid time gets no rank and no
\* percentile, and the denominator is the size of the opponent pool.
C4_DenominatorIsPoolSize ==
    TargetUnranked =>
        /\ IsNone(resp.rank) /\ IsNone(resp.percentile)
        /\ resp.denominator = Cardinality(PolicyPool(table, resp.name, Strip(resp.stroke)))

\* C4 as amended: a target without a valid time gets no rank and no
\* percentile; the denominator counts the pool members that have a valid
\* PB-eligible time, and top holds min(10, denominator) of them.
C4_DenominatorCountsRanked ==
    TargetUnranked =>
        /\ IsNone(resp.rank) /\ IsNone(resp.percentile)
        /\ resp.denominator = Cardinality(CountedPool(table, resp.name, Strip(resp.stroke)))
        /\ Len(resp.top) = Min(TopK, resp.denominator)
        /\ \A i \in DOMAIN resp.top :
              resp.top[i].name \in CountedPool(table, resp.name, Strip(resp.stroke))
        /\ \A i, j \in DOMAIN resp.top : resp.top[i].name = resp.top[j].name => i = j

\* an unranked target facing a pool of which some member is ranked and
\* some member has no valid time
C4_Witness ==
    /\ TargetUnranked
    /\ resp.denominator >= 1
    /\ resp.denominator < Cardinality(resp.opponents)

\* C5: the opponents of /rank are exactly the swimmers the membership
\* policy admits.
C5_PoolMembership ==
    RankOk => resp.opponents = PolicyPool(table, resp.name, Strip(resp.stroke))

\* an opponent admitted on a numeric-division row of the target although its
\* own division differs, next to a row of the target in a named division
C5_Witness ==
    /\ RankOk
    /\ \E i, j \in DOMAIN table :
          /\ table[i].name = resp.name /\ PurelyNumeric(table[i].grp)
          /\ table[j].name \in resp.opponents
          /\ table[j].year = table[i].year /\ table[j].meet = table[i].meet
          /\ table[j].item = table[i].item /\ table[j].grp # table[i].grp
    /\ \E i \in DOMAIN table :
          table[i].name = resp.name /\ ~PurelyNumeric(table[i].grp)

PageEligibleSecs(items) ==
    {it.seconds : it \in {x \in Range(items) :
        /\ ~is_winter_short_course(x.meet)
        /\ ~IsNone(x.seconds)
        /\ PositiveTime(x.seconds)}}

\* C6: every reported PB is the minimum over the rows that are not winter
\* short-course rows and hold a valid time, or absent when there is none.
C6_PbIsMinOfEligible ==
    /\ (resp.ep = "pb" /\ ~resp.dbfail) =>
          resp.pb_seconds = EligibleMin(table, resp.name, Strip(resp.stroke))
    /\ (resp.ep = "summary" /\ resp.status = 200) =>
          /\ resp.analysis.pb_seconds = MinOf(PageEligibleSecs(resp.items))
          /\ \A fam \in Families :
                resp.family[fam].pb_seconds = EligibleMin(table, resp.name, fam)
    /\ RankOk =>
          \A i \in DOMAIN resp.top :
              resp.top[i].pb = EligibleMin(table, resp.top[i].name, Strip(resp.stroke))

\* C7: the session of a request is closed exactly once by the time the
\* request has ended, and an open session is eventually closed.
C7_SessionClosedOnce ==
    /\ []((phase = "idle" /\ sess # "none") => (sess = "closed" /\ closes = 1))
    /\ ((sess = "open") ~> (sess = "closed"))

\* a request whose handler raised has ended with its session closed
C7_Witness ==
    /\ phase = "idle" /\ resp.ep # "none" /\ resp.status = 500
    /\ sess = "closed" /\ closes = 1

\* C8: a request during which a query failed is answered with a failure,
\* and its queries are not issued again.
C8_FailureIsVisible ==
    (resp.ep # "none" /\ resp.dbfail) => (resp.status # 200 /\ ~resp.retried)

-----------------------------------------------------------------------------
(* Properties of parse_seconds *)

\* digits, optionally followed by a point and digits
IsSecSeg(s) ==
    \E i \in 1..Len(s) :
        /\ IsDigits(SubSeq(s, 1, i))
        /\ \/ i = Len(s)
           \/ (s[i + 1] = "." /\ IsDigits(SubSeq(s, i + 2, Len(s))))

\* the value of such a segment
SecVal(s) ==
    IF HasChar(s, ".")
    THEN Num(DigitsVal(SelectSeq(s, LAMBDA c : c # ".")),
             Len(s) - (CHOOSE i \in 1..Len(s) : s[i] = "."))
    ELSE Num(DigitsVal(s), 0)

Colons(s) == Cardinality({i \in 1..Len(s) : s[i] = ":"})

\* n colon-separated segments: digits, ..., digits, seconds
WellFormed(s, n) ==
    /\ Colons(s) = n - 1
    /\ \A i \in 1..(n - 1) : IsDigits(SplitOn(s, ":")[i])
    /\ IsSecSeg(SplitOn(s, ":")[n])

RECURSIVE UnitsValue(_)
\* the segments left of the seconds, each worth 60 of the one to its right
UnitsValue(segs) ==
    IF segs = <<>> THEN 0
    ELSE 60 * (UnitsValue(SubSeq(segs, 1, Len(segs) - 1)) + DigitsVal(segs[Len(segs)]))

Expected(s) ==
    FAdd(Num(UnitsValue(SubSeq(SplitOn(s, ":"), 1, Colons(s))), 0),
         SecVal(SplitOn(s, ":")[Colons(s) + 1]))

Parsed1 == ret.fn = "parse_seconds" /\ arg.k = "str"

\* C9 as stated: "SS.ss", "MM:SS.ss" and "HH:MM:SS.ss" all parse to the sum
\* of their segments, each segment worth 60 of the next.
C9_ColonSegments ==
    (Parsed1 /\ \E n \in 1..3 : WellFormed(arg.s, n)) => ret.val = Expected(arg.s)

\* C9 as amended: "SS.ss" parses to its value and "MM:SS.ss" to
\* MM*60 + SS.ss; a string with two or more colons is invalid.
C9_TwoSegmentsOnly ==
    Parsed1 =>
        /\ (\E n \in 1..2 : WellFormed(arg.s, n)) => ret.val = Expected(arg.s)
        /\ Colons(arg.s) >= 2 => IsNone(ret.val)

\* "HH:MM:SS.ss" with a non-zero hour was parsed, and is invalid
C9_Witness ==
    /\ Parsed1 /\ WellFormed(arg.s, 3)
    /\ DigitsVal(SplitOn(arg.s, ":")[1]) > 0
    /\ IsNone(ret.val)

\* C10: None, the empty string and every string without a digit are invalid.
C10_NoDigitIsInvalid ==
    (ret.fn = "parse_seconds" /\ (IsNone(arg) \/ ~\E i \in 1..Len(arg.s) : arg.s[i] \in Digits))
        => IsNone(ret.val)

-----------------------------------------------------------------------------
(* Properties of the meet-name normalizers *)

\* C11: clean_meet_name applied to its own output returns that output
\* unchanged.
C11_Idempotent ==
    (ret.fn = "clean_meet_name twice") => ret.val = ret.first

-----------------------------------------------------------------------------
(* Properties of the event classifier *)

Label == IF IsNone(arg) THEN <<>> ELSE arg.s

\* the first of the vocabulary, in its order, that occurs in the label
FirstOf(vocabulary, label) ==
    IF \E i \in DOMAIN vocabulary : Contains(label, vocabulary[i])
    THEN vocabulary[CHOOSE i \in DOMAIN vocabulary :
                        /\ Contains(label, vocabulary[i])
                        /\ \A j \in 1..(i - 1) : ~Contains(label, vocabulary[j])]
    ELSE <<>>

\* C12 as stated: the classifier returns the first of breaststroke,
\* backstroke, freestyle, butterfly, medley that occurs in the label, and
\* the 'unknown' value "" when none occurs.
C12_FiveFamilies ==
    (ret.fn = "stroke_family") =>
        ret.val = Str(FirstOf(<<Breast, Back, Free, Fly, Medley>>, Label))

\* C12 as amended: the classifier returns the first of breaststroke,
\* backstroke, freestyle, butterfly that occurs in the label, and "" when
\* none occurs, also for a label whose only marker is medley.
C12_FourFamilies ==
    (ret.fn = "stroke_family") =>
        /\ ret.val = Str(FirstOf(<<Breast, Back, Free, Fly>>, Label))
        /\ (\A i \in 1..4 : ~Contains(Label, <<Breast, Back, Free, Fly>>[i]))
               => ret.val = Str(<<>>)

\* a label was classified in which backstroke stands before breaststroke
C12_Witness ==
    /\ ret.fn = "stroke_family"
    /\ Label = Back \o Breast
    /\ ret.val = Str(Breast)

-----------------------------------------------------------------------------
(* Properties of the board of /rank *)

RankedResponse == RankOk /\ resp.denominator > 0

\* C13: in every non-empty /rank response the board is in non-decreasing
\* order of PB, its ranks are 1..denominator, no swimmer is on it twice,
\* top is its first min(10, denominator) entries, and the leader is its
\* rank-1 entry and has the least PB of the board.
C13_BoardOrdered ==
    RankedResponse =>
        /\ Len(resp.board) = resp.denominator
        /\ \A i \in DOMAIN resp.board : resp.board[i].rank = i
        /\ \A i, j \in DOMAIN resp.board :
              /\ i < j => ~FLt(resp.board[j].pb, resp.board[i].pb)
              /\ resp.board[i].name = resp.board[j].name => i = j
        /\ resp.top = SubSeq(resp.board, 1, Min(10, resp.denominator))
        /\ resp.leader.name = resp.board[1].name
        /\ resp.leader.rank = 1
        /\ resp.leader.pb_seconds = resp.board[1].pb
        /\ \A i \in DOMAIN resp.board : ~FLt(resp.board[i].pb, resp.leader.pb_seconds)

\* the same, for the boards on which no PB is nan
C13_OrderedUnlessNan ==
    (RankedResponse /\ \A i \in DOMAIN resp.board : resp.board[i].pb.k # "nan")
        => C13_BoardOrdered

\* a board of more than ten swimmers with equal PBs on it
C13_Witness ==
    /\ RankedResponse
    /\ resp.denominator > 10
    /\ \E i, j \in DOMAIN resp.board : i # j /\ resp.board[i].pb = resp.board[j].pb

-----------------------------------------------------------------------------
(* Properties relating /summary to /pb and to /rank *)

SummaryOk == resp.ep = "summary" /\ resp.status = 200

\* C14: analysis.pb_seconds of /summary is the pb_seconds /pb returns for
\* the same table, name and stroke, whatever the limit and the cursor.
C14_SummaryPbIsPb ==
    SummaryOk =>
        resp.analysis.pb_seconds
            = PbResponse(table, resp.name, resp.stroke, FALSE).pb_seconds

\* C15: the leaderTrend points of /summary are the leaderTrend /rank returns
\* for the same table, name and stroke (for some key order of the pool),
\* also when the target has no opponent and when no pool member has a PB.
C15_SameLeaderTrend ==
    (SummaryOk /\ ~resp.dbfail) =>
        \E order \in OpponentOrders(Opponents(table, resp.name, Strip(resp.stroke))) :
            resp.leaderTrend
                = RankResponse(table, resp.name, resp.stroke, order, FALSE).leaderTrend

-----------------------------------------------------------------------------
(* Properties of paging *)

ListedRows == Range(SwimmerRows(table, client.name, Strip(client.stroke)))

PagingDone == client.ep # "none" /\ IsNone(client.cursor)

PageOk == client.ep # "none" /\ resp.ep = client.ep /\ resp.status = 200

\* C16: a client that starts at cursor 0 and follows nextCursor is done
\* after finitely many calls (at most one more than the full pages of the
\* list); nextCursor is cursor + limit exactly when the page holds limit
\* rows, else null; and once done, the items it has received are the rows
\* of the list in ascending year, each exactly once.
C16_PagingCoversList ==
    /\ PageOk =>
          /\ IsNone(resp.nextCursor) <=> Len(resp.items) # req.limit
          /\ ~IsNone(resp.nextCursor) => resp.nextCursor.v = req.cursor + req.limit
    /\ client.ep # "none" =>
          client.calls <= Cardinality(ListedRows) \div client.limit + 1
    /\ PagingDone =>
          /\ Len(client.items) = Cardinality(ListedRows)
          /\ {client.items[i] : i \in DOMAIN client.items} = {Item(r) : r \in ListedRows}
          /\ \A i, j \in DOMAIN client.items :
                i < j => client.items[i].year <= client.items[j].year

\* the same, for the lists in which no two rows have the same year
C16_CoversListWithoutTies ==
    (client.ep # "none" /\ \A r1, r2 \in ListedRows : r1.year = r2.year => r1 = r2)
        => C16_PagingCoversList

\* a client that is done after three calls or more
C16_Witness ==
    /\ PagingDone
    /\ client.calls >= 3
    /\ \A r1, r2 \in ListedRows : r1.year = r2.year => r1 = r2

-----------------------------------------------------------------------------
(* Properties of the neighbourhood window of /rank *)

\* the board entries at most three places from rank r, the entry at r left out
Neighbours(board, r) ==
    LET Near(e) == e.rank # r /\ e.rank >= r - 3 /\ e.rank <= r + 3
    IN  SelectSeq(board, Near)

\* C17: when the target is ranked, around never holds the target and is
\* exactly the board entries up to three places ahead of it and up to three
\* places behind it, in board order; when the target is unranked, around
\* is empty.
C17_AroundThreeEachSide ==
    RankOk =>
        IF IsNone(resp.rank) THEN resp.around = <<>>
        ELSE /\ \A i \in DOMAIN resp.around : resp.around[i].name # resp.name
             /\ resp.around = Neighbours(resp.board, resp.rank.v)

====
